---- MODULE Spec2Model ----
(***************************************************************************)
(* Doubles pickleball tournament scheduling (Pickleball.ipynb).            *)
(*                                                                         *)
(* A Pair is a 2-tuple of players, a Game a 2-slot list of Pairs, a Round  *)
(* a list of Games and a Schedule a list of Rounds.  Python lists hold     *)
(* references: the Rounds of a Schedule hold the very Game objects of the  *)
(* list they were scheduled from.  A Round is therefore modelled as a      *)
(* sequence of indices into the game list, and the value of a Schedule is  *)
(* obtained by dereferencing (sched_value).                                *)
(***************************************************************************)
EXTENDS Integers, Sequences, FiniteSets, Bags, TLC

VARIABLES
    pc,       \* "idle" before a call, "loop" at the head of the for loop of tournament2, "done"
    fn,       \* the function called
    P, C,     \* its arguments: players and courts
    tries,    \* the iteration budget of tournament2
    pairs,    \* the list of pairs: all_pairs(P), or the list handed to games_from_pairs
    none,     \* TRUE when games_from_pairs(pairs) returned None
    games,    \* the list of games
    sched,    \* the schedule: rounds of indices into games
    diff,     \* the recorded total_difference
    t,        \* iterations of the for loop begun so far
    outcome,  \* "" while running, "return", or the exception raised
    early     \* TRUE when tournament2 returned from inside the loop (line 466)

vars == <<pc, fn, P, C, tries, pairs, none, games, sched, diff, t, outcome, early>>

(* ------------------------------ bounds -------------------------------- *)
MaxP        == 8      \* players: P ranges over 0..MaxP
MaxC        == 2      \* courts: C ranges over 0..MaxC
MaxTries    == 2      \* iterations of tournament2 explored for the players of DeepPlayers
DeepPlayers == 0..6   \* with more players one iteration of tournament2 is explored
MaxLen      == 2      \* length of the game lists handed directly to schedule_games / total_difference
MaxPairs    == 4      \* length of the pair lists handed directly to games_from_pairs
PairPlayers == 4      \* players of the pairs of those lists

(* --------------------------- Python values ---------------------------- *)
\* The value None, and a list, as the two shapes games_from_pairs returns.
None      == [isNone |-> TRUE,  list |-> << >>]
Some(l)   == [isNone |-> FALSE, list |-> l]

Min(S) == CHOOSE x \in S : \A y \in S : x <= y

abs(x) == IF x < 0 THEN -x ELSE x

\* math.ceil(n / d) for integers n >= 0, d > 0
ceil(n, d) == (n + d - 1) \div d

(* ------------------------------ players ------------------------------- *)
\* players(x) for a Pair
players_pair(p) == {p[1], p[2]}

\* players(x) for a Game: the union of the players of its two pairs
players(game) == players_pair(game[1]) \cup players_pair(game[2])

\* players(x) for a Round, given the game list its indices refer to
players_round(round, gs) == UNION {players(gs[round[k]]) : k \in 1..Len(round)}

(* ----------------------------- all_pairs ------------------------------ *)
\* list(combinations(range(1, P + 1), 2)): lexicographic order
all_pairs(n) ==
    LET S == {q \in (1..n) \X (1..n) : q[1] < q[2]}
        before(q) == {r \in S : r[1] < q[1] \/ (r[1] = q[1] /\ r[2] < q[2])}
    IN  [k \in 1..Cardinality(S) |-> CHOOSE q \in S : Cardinality(before(q)) = k - 1]

(* -------------------------- games_from_pairs -------------------------- *)
RECURSIVE games_from_pairs(_), try_pair2(_, _)

\* the for loop from the k-th element of the list onward: the pair2 that pass the
\* test of line 183 are tried in list order until one leaves a list that packs
try_pair2(prs, k) ==
    LET pair1 == prs[1]
        fit   == {m \in k..Len(prs) :
                     Cardinality(players_pair(pair1) \cup players_pair(prs[m])) = 4}
    IN  IF fit = {} THEN None
        ELSE LET m           == Min(fit)
                 pair2       == prs[m]
                 other_games == games_from_pairs(
                                    SelectSeq(prs, LAMBDA p : p # pair1 /\ p # pair2))
             IN  IF ~other_games.isNone
                 THEN Some(<< <<pair1, pair2>> >> \o other_games.list)
                 ELSE try_pair2(prs, m + 1)

\* games_from_pairs that stops while a game could still be made
games_from_pairs_short(prs) ==
    IF Len(prs) < 4 THEN Some(<< >>) ELSE try_pair2(prs, 1)

games_from_pairs(prs) ==
    IF Len(prs) < 2 THEN Some(<< >>) ELSE try_pair2(prs, 1)

(* --------------------------- schedule_games --------------------------- *)
\* first with the court test off by one: a round of C games still takes a game
first_overfull(schedule, gs, c, g) ==
    LET fits == {r \in 1..Len(schedule) :
                    /\ Len(schedule[r]) <= c
                    /\ players_round(schedule[r], gs) \cap players(gs[g]) = {}}
    IN  IF fits = {} THEN 0 ELSE Min(fits)

\* first that takes the round made last among those that fit
first_latest(schedule, gs, c, g) ==
    LET fits == {r \in 1..Len(schedule) :
                    /\ Len(schedule[r]) < c
                    /\ players_round(schedule[r], gs) \cap players(gs[g]) = {}}
    IN  IF fits = {} THEN 0 ELSE CHOOSE r \in fits : \A q \in fits : q <= r

\* first(round for round in schedule if len(round) < C and not (players(round) & players(game))):
\* the index of the first round that fits, 0 for None
first(schedule, gs, c, g) ==
    LET fits == {r \in 1..Len(schedule) :
                    /\ Len(schedule[r]) < c
                    /\ players_round(schedule[r], gs) \cap players(gs[g]) = {}}
    IN  IF fits = {} THEN 0 ELSE Min(fits)

\* place with the game appended both when the round is made and after it
place_twice(schedule, gs, c, g) ==
    LET round == first(schedule, gs, c, g)
    IN  IF round = 0
        THEN Append(schedule, <<g, g>>)
        ELSE [schedule EXCEPT ![round] = Append(@, g)]

\* place that never reuses a round: every game opens a round of its own
place_new_round(schedule, gs, c, g) ==
    Append(schedule, <<g>>)

\* one pass of the loop body for the game at index g
place(schedule, gs, c, g) ==
    LET round == first(schedule, gs, c, g)
    IN  IF round = 0
        THEN Append(schedule, <<g>>)
        ELSE [schedule EXCEPT ![round] = Append(@, g)]

RECURSIVE schedule_loop(_, _, _, _)
schedule_loop(schedule, gs, c, g) ==
    IF g > Len(gs) THEN schedule
    ELSE schedule_loop(place(schedule, gs, c, g), gs, c, g + 1)

schedule_games(gs, c) == schedule_loop(<< >>, gs, c, 1)

\* the Schedule as a value: each round the list of its games
sched_value(schedule, gs) ==
    [r \in 1..Len(schedule) |-> [k \in 1..Len(schedule[r]) |-> gs[schedule[r][k]]]]

(* ------------------------------ metrics ------------------------------- *)
pairing(p1, p2) == IF p1 <= p2 THEN <<p1, p2>> ELSE <<p2, p1>>

\* the pairings one game adds to the Counter: p1 in A, p2 in B, by tuple position
game_pairings(game) ==
    << pairing(game[1][1], game[2][1]), pairing(game[1][1], game[2][2]),
       pairing(game[1][2], game[2][1]), pairing(game[1][2], game[2][2]) >>

RECURSIVE all_pairings(_)
all_pairings(gs) ==
    IF gs = << >> THEN << >> ELSE game_pairings(Head(gs)) \o all_pairings(Tail(gs))

\* Counter(...): the keys are the pairings that occur, each with its number of occurrences
opponent_counts(gs) ==
    LET ps == all_pairings(gs)
    IN  [key \in {ps[k] : k \in 1..Len(ps)} |->
            Cardinality({k \in 1..Len(ps) : ps[k] = key})]

RECURSIVE SumOver(_, _)
SumOver(f, S) ==
    IF S = {} THEN 0
    ELSE LET x == CHOOSE y \in S : TRUE IN f[x] + SumOver(f, S \ {x})

optimal == 2

total_difference(gs) ==
    LET counts == opponent_counts(gs)
        cost   == [key \in DOMAIN counts |->
                      abs(counts[key] - optimal) * abs(counts[key] - optimal)
                                                 * abs(counts[key] - optimal)]
    IN  SumOver(cost, DOMAIN counts)

\* is_optimal without the test of the number of rounds
is_optimal_diff_only(schedule, d, n, c) == d = 0

\* diff == 0 and len(schedule) == math.ceil(P * (P - 1) / 4 / C); called with c > 0
is_optimal(schedule, d, n, c) ==
    d = 0 /\ Len(schedule) = ceil(n * (n - 1), 4 * c)

(* -------------------------------- swap -------------------------------- *)
\* swap that copies the pair of the second game into the first game and
\* leaves the second game as it was
swap_copy(gs, g1, g2, s1, s2) ==
    [gs EXCEPT ![g1][s1] = gs[g2][s2]]

\* games[g1][s1], games[g2][s2] = games[g2][s2], games[g1][s1]
swap(gs, g1, g2, s1, s2) ==
    LET a  == gs[g1][s1]
        b  == gs[g2][s2]
        m1 == [gs EXCEPT ![g1][s1] = b]
    IN  [m1 EXCEPT ![g2][s2] = a]

\* games_from_pairs(all_pairs(P)) for each number of players of the model
GamesOf == [n \in 0..MaxP |-> games_from_pairs(all_pairs(n))]

(* ------------------------------ the program --------------------------- *)
Init ==
    /\ pc = "idle"
    /\ fn = ""
    /\ P = 0
    /\ C = 0
    /\ tries = 0
    /\ pairs = << >>
    /\ none = FALSE
    /\ games = << >>
    /\ sched = << >>
    /\ diff = 0
    /\ t = 0
    /\ outcome = ""
    /\ early = FALSE

\* tournament(P, C): schedule_games(games_from_pairs(all_pairs(P)), C)
Tournament(n, c) ==
    /\ pc = "idle"
    /\ pc' = "done"
    /\ fn' = "tournament"
    /\ P' = n
    /\ C' = c
    /\ pairs' = all_pairs(n)
    /\ none' = GamesOf[n].isNone
    /\ IF GamesOf[n].isNone
       THEN \* for game in None
            /\ outcome' = "TypeError"
            /\ UNCHANGED <<games, sched>>
       ELSE /\ games' = GamesOf[n].list
            /\ sched' = schedule_games(GamesOf[n].list, c)
            /\ outcome' = "return"
    /\ UNCHANGED <<tries, diff, t, early>>

\* the iteration budget the model explores for n players
TriesBound(n) == IF n \in DeepPlayers THEN MaxTries ELSE 1

\* the start of tournament2 with schedule_games(games) called without C, so
\* that the default of two courts is used
T2Start_default_courts(n, c, k) ==
    /\ pc = "idle"
    /\ fn' = "tournament2"
    /\ P' = n
    /\ C' = c
    /\ tries' = k
    /\ pairs' = all_pairs(n)
    /\ none' = GamesOf[n].isNone
    /\ IF GamesOf[n].isNone
       THEN /\ pc' = "done"
            /\ outcome' = "TypeError"
            /\ UNCHANGED <<games, sched, diff>>
       ELSE /\ pc' = "loop"
            /\ games' = GamesOf[n].list
            /\ sched' = schedule_games(GamesOf[n].list, 2)
            /\ diff' = total_difference(GamesOf[n].list)
            /\ UNCHANGED outcome
    /\ UNCHANGED <<t, early>>

\* tournament2, lines 460-463: the initial games, schedule and dispersion
T2Start(n, c, k) ==
    /\ pc = "idle"
    /\ fn' = "tournament2"
    /\ P' = n
    /\ C' = c
    /\ tries' = k
    /\ pairs' = all_pairs(n)
    /\ none' = GamesOf[n].isNone
    /\ IF GamesOf[n].isNone
       THEN \* schedule_games(None, C): for game in None
            /\ pc' = "done"
            /\ outcome' = "TypeError"
            /\ UNCHANGED <<games, sched, diff>>
       ELSE /\ pc' = "loop"
            /\ games' = GamesOf[n].list
            /\ sched' = schedule_games(GamesOf[n].list, c)
            /\ diff' = total_difference(GamesOf[n].list)
            /\ UNCHANGED outcome
    /\ UNCHANGED <<t, early>>

\* line 465: is_optimal divides by C once diff == 0 has let the `and` go on
OptimalRaises == diff = 0 /\ C = 0
Optimal       == ~OptimalRaises /\ diff = 0 /\ is_optimal(sched, diff, P, C)

\* lines 465-466, with C = 0: P * (P - 1) / 4 / C
T2ZeroDivision ==
    /\ pc = "loop"
    /\ t < tries
    /\ OptimalRaises
    /\ pc' = "done"
    /\ outcome' = "ZeroDivisionError"
    /\ UNCHANGED <<fn, P, C, tries, pairs, none, games, sched, diff, t, early>>

\* lines 465-466: the early return
T2ReturnOptimal ==
    /\ pc = "loop"
    /\ t < tries
    /\ Optimal
    /\ pc' = "done"
    /\ outcome' = "return"
    /\ early' = TRUE
    /\ UNCHANGED <<fn, P, C, tries, pairs, none, games, sched, diff, t>>

\* line 468 with fewer than two games: random.sample(range(len(games)), 2)
T2SampleRaises ==
    /\ pc = "loop"
    /\ t < tries
    /\ ~OptimalRaises /\ ~Optimal
    /\ Len(games) < 2
    /\ pc' = "done"
    /\ outcome' = "ValueError"
    /\ UNCHANGED <<fn, P, C, tries, pairs, none, games, sched, diff, t, early>>

\* the test without the condition that both games keep four players
Keep_unchecked(g2, i, j) ==
    /\ total_difference(g2) <= diff
    /\ Len(schedule_games(g2, C)) <= Len(sched)

\* the test without the comparison of the dispersion
Keep_any_diff(g2, i, j) ==
    /\ Cardinality(players(g2[i])) = 4
    /\ Cardinality(players(g2[j])) = 4
    /\ Len(schedule_games(g2, C)) <= Len(sched)

\* the test of line 472-473 on the swapped list g2, swapped at games i and j
Keep(g2, i, j) ==
    /\ total_difference(g2) <= diff
    /\ Cardinality(players(g2[i])) = 4
    /\ Cardinality(players(g2[j])) = 4
    /\ Len(schedule_games(g2, C)) <= Len(sched)

\* the loop body that leaves a swap it does not keep in the list
iteration_no_undo(i, j, s1, s2) ==
    LET g2 == swap(games, i, j, s1, s2)
    IN  IF Keep(g2, i, j)
        THEN [games |-> g2, sched |-> schedule_games(g2, C), diff |-> total_difference(g2)]
        ELSE [games |-> g2, sched |-> sched, diff |-> diff]

\* lines 469-476: games, sched and diff after the loop body has swapped sides s1
\* and s2 of games i and j and has kept the swap or swapped back
iteration(i, j, s1, s2) ==
    LET g2 == swap(games, i, j, s1, s2)
    IN  IF Keep(g2, i, j)
        THEN [games |-> g2, sched |-> schedule_games(g2, C), diff |-> total_difference(g2)]
        ELSE \* swap(games, idx) again
             [games |-> swap(g2, i, j, s1, s2), sched |-> sched, diff |-> diff]

\* lines 465-476: one iteration with random games i, j and random sides s1, s2
T2Iterate(i, j, s1, s2) ==
    /\ pc = "loop"
    /\ t < tries
    /\ ~OptimalRaises /\ ~Optimal
    /\ i # j
    /\ \E after \in {iteration(i, j, s1, s2)} :
          /\ games' = after.games
          /\ sched' = after.sched
          /\ diff' = after.diff
    /\ t' = t + 1
    /\ UNCHANGED <<pc, fn, P, C, tries, pairs, none, outcome, early>>

\* line 477: the budget is used up
T2ReturnBudget ==
    /\ pc = "loop"
    /\ t = tries
    /\ pc' = "done"
    /\ outcome' = "return"
    /\ UNCHANGED <<fn, P, C, tries, pairs, none, games, sched, diff, t, early>>

\* the game lists handed directly to schedule_games and total_difference:
\* every list of at most MaxLen games of a tournament of n players
RECURSIVE ListsOver(_, _)
ListsOver(pool, len) ==
    IF len = 0 THEN {<< >>}
    ELSE LET shorter == ListsOver(pool, len - 1)
         IN  shorter \cup {Append(l, g) : l \in {x \in shorter : Len(x) = len - 1}, g \in pool}

GameLists ==
    [n \in 4..MaxP |->
        ListsOver({GamesOf[n].list[k] : k \in 1..Len(GamesOf[n].list)}, MaxLen)]

\* schedule_games(games, C) on a list of games of players 1..n
ScheduleGames ==
    /\ pc = "idle"
    /\ \E n \in 4..MaxP : \E gs \in GameLists[n], c \in 1..MaxC :
          /\ P' = n
          /\ C' = c
          /\ games' = gs
          /\ sched' = schedule_games(gs, c)
    /\ pc' = "done"
    /\ fn' = "schedule_games"
    /\ outcome' = "return"
    /\ UNCHANGED <<tries, pairs, none, diff, t, early>>

\* total_difference(games) on a list of games of players 1..n
TotalDifference ==
    /\ pc = "idle"
    /\ \E n \in 4..MaxP : \E gs \in GameLists[n] :
          /\ P' = n
          /\ games' = gs
          /\ diff' = total_difference(gs)
    /\ pc' = "done"
    /\ fn' = "total_difference"
    /\ outcome' = "return"
    /\ UNCHANGED <<C, tries, pairs, none, sched, t, early>>

\* the pair lists handed directly to games_from_pairs: every list of at most
\* MaxPairs distinct pairs of the players 1..PairPlayers
PairLists ==
    {l \in ListsOver({q \in (1..PairPlayers) \X (1..PairPlayers) : q[1] < q[2]}, MaxPairs) :
        \A a \in 1..Len(l), b \in 1..Len(l) : a # b => l[a] # l[b]}

\* games_from_pairs(pairs) on a list of distinct pairs: a list of games or None
GamesFromPairs ==
    /\ pc = "idle"
    /\ \E prs \in PairLists :
          /\ pairs' = prs
          /\ \E result \in {games_from_pairs(prs)} :
                /\ none' = result.isNone
                /\ games' = IF result.isNone THEN << >> ELSE result.list
    /\ pc' = "done"
    /\ fn' = "games_from_pairs"
    /\ P' = PairPlayers
    /\ outcome' = "return"
    /\ UNCHANGED <<C, tries, sched, diff, t, early>>

Next ==
    \/ \E n \in 0..MaxP, c \in 0..MaxC : Tournament(n, c)
    \/ \E n \in 0..MaxP, c \in 0..MaxC : \E k \in 0..TriesBound(n) : T2Start(n, c, k)
    \/ T2ZeroDivision
    \/ T2ReturnOptimal
    \/ T2SampleRaises
    \/ \E i \in 1..Len(games), j \in 1..Len(games), s1 \in 1..2, s2 \in 1..2 :
          T2Iterate(i, j, s1, s2)
    \/ T2ReturnBudget
    \/ ScheduleGames
    \/ TotalDifference
    \/ GamesFromPairs

Spec == Init /\ [][Next]_vars

(* ------------------------------ properties ---------------------------- *)
\* the games of a schedule, round after round
RECURSIVE Flatten(_)
Flatten(rounds) == IF rounds = << >> THEN << >> ELSE Head(rounds) \o Flatten(Tail(rounds))

\* the multiset of the elements of a sequence
BagOf(s) == [v \in {s[k] : k \in 1..Len(s)} |-> Cardinality({k \in 1..Len(s) : s[k] = v})]

FourDistinct(game) ==
    Cardinality({game[1][1], game[1][2], game[2][1], game[2][2]}) = 4

\* how many sides of the games of gs are the partner pair {a, b}
Partnered(gs, a, b) ==
    Cardinality({q \in (1..Len(gs)) \X (1..2) : {gs[q[1]][q[2]][1], gs[q[1]][q[2]][2]} = {a, b}})

\* how many games of gs have a and b on opposing sides
Opposed(gs, a, b) ==
    Cardinality({g \in 1..Len(gs) :
        \/ a \in {gs[g][1][1], gs[g][1][2]} /\ b \in {gs[g][2][1], gs[g][2][2]}
        \/ b \in {gs[g][1][1], gs[g][1][2]} /\ a \in {gs[g][2][1], gs[g][2][2]}})

PlayerPairs(n) == {q \in (1..n) \X (1..n) : q[1] < q[2]}

Returned(f) == fn = f /\ pc = "done" /\ outcome = "return"

\* C1: every round of a schedule returned by schedule_games, tournament or
\* tournament2 with C >= 1 holds at most C games, and no player is in two games
\* of one round.
C1_RoundsFitAndDisjoint ==
    ((Returned("schedule_games") \/ Returned("tournament") \/ Returned("tournament2")) /\ C >= 1)
    => \A r \in 1..Len(sched) :
          /\ Len(sched[r]) <= C
          /\ \A k1 \in 1..Len(sched[r]), k2 \in 1..Len(sched[r]) :
                k1 # k2 => players(games[sched[r][k1]]) \cap players(games[sched[r][k2]]) = {}

\* tournament2 returns, after a swap it kept, a schedule with two games in a round
C1_Witness ==
    /\ Returned("tournament2")
    /\ C >= 1
    /\ games # GamesOf[P].list
    /\ \E r \in 1..Len(sched) : Len(sched[r]) = 2

\* C2 as stated: for every P >= 2 the list games_from_pairs(all_pairs(P)) uses
\* every pair of players as a partner pair exactly once when 4 divides P*(P-1),
\* and otherwise leaves out exactly one pair and uses every other pair once.
PartnerCoverage ==
    /\ ~none
    /\ \A q \in PlayerPairs(P) : Partnered(games, q[1], q[2]) <= 1
    /\ Cardinality({q \in PlayerPairs(P) : Partnered(games, q[1], q[2]) = 0})
          = (IF (P * (P - 1)) % 4 = 0 THEN 0 ELSE 1)

InitialGames == fn \in {"tournament", "tournament2"} /\ t = 0 /\ C >= 1 /\ pairs = all_pairs(P)

C2_AsStated == (InitialGames /\ P >= 2) => PartnerCoverage

\* C2 amended: the same for every P >= 2 other than P = 3; with three players
\* no two pairs are disjoint and games_from_pairs returns None.
C2_PartnerCoverage ==
    /\ (InitialGames /\ P >= 2 /\ P # 3) => PartnerCoverage
    /\ (InitialGames /\ P = 3) => none

\* a list of games that leaves one pair out
C2_Witness ==
    /\ Returned("tournament")
    /\ Len(games) >= 2
    /\ \E q \in PlayerPairs(P) : Partnered(games, q[1], q[2]) = 0

\* C3: the multiset of the games in the rounds of schedule_games(games, C) is
\* the multiset of the games of the list: none is dropped, none is duplicated.
C3_SameMultiset ==
    ((Returned("schedule_games") \/ Returned("tournament") \/ Returned("tournament2")) /\ C >= 1)
    => BagOf(Flatten(sched_value(sched, games))) = BagOf(games)

\* a list with the same game twice, scheduled in two rounds
C3_Witness ==
    /\ Returned("schedule_games")
    /\ Len(games) = 2
    /\ games[1] = games[2]
    /\ Len(sched) = 2

\* C4: every game of the list games_from_pairs returns, and of the working list
\* of tournament2 at the start of each iteration and at return, has four
\* distinct players.
C4_FourDistinct ==
    (fn \in {"tournament", "tournament2"}) => \A g \in 1..Len(games) : FourDistinct(games[g])

\* the start of an iteration after a swap that was kept
C4_Witness ==
    /\ fn = "tournament2"
    /\ pc = "loop"
    /\ t >= 1
    /\ t < tries
    /\ games # GamesOf[P].list

\* C5: from one iteration of tournament2 to the next neither the recorded
\* dispersion nor the number of rounds of the recorded schedule increases, and
\* the schedule returned has no more rounds than that of tournament(P, C).
C5_NonIncreasing ==
    /\ [][(fn = "tournament2" /\ pc = "loop")
            => (diff' <= diff /\ Len(sched') <= Len(sched))]_vars
    /\ [](Returned("tournament2")
            => Len(sched) <= Len(schedule_games(GamesOf[P].list, C)))

\* a run that lowered the dispersion
C5_Witness ==
    /\ Returned("tournament2")
    /\ t >= 1
    /\ diff < total_difference(GamesOf[P].list)

\* C6 as stated, where games_from_pairs returned a list: for P >= 2 and C >= 1
\* tournament2 never raises; it ends after at most `tries` iterations with a
\* schedule.
C6_NeverRaises ==
    (fn = "tournament2" /\ P >= 2 /\ C >= 1 /\ ~none)
    => (outcome \in {"", "return"} /\ t <= tries)

\* C7 as stated: with P < 2 or C < 1 tournament and tournament2 compute
\* nothing: no game is packed, the loop is not entered, no schedule is returned.
C7_InvalidRejected ==
    (fn \in {"tournament", "tournament2"} /\ (P < 2 \/ C < 1))
    => (outcome # "return" /\ pc # "loop" /\ games = << >> /\ sched = << >>)

\* C8 as stated: when games_from_pairs returns None, tournament returns a
\* result; it does not hand None to schedule_games and raise.
C8_NoPackingRecovered ==
    (fn = "tournament" /\ pc = "done" /\ P >= 2 /\ C >= 1 /\ none) => outcome = "return"

\* C9: when tournament2 returns early, the dispersion of the games of the
\* schedule returned is 0 and its number of rounds is the least integer that
\* is at least P*(P-1)/4/C.
C9_EarlyReturnIsOptimal ==
    early => /\ C >= 1
             /\ total_difference(Flatten(sched_value(sched, games))) = 0
             /\ Len(sched) * 4 * C >= P * (P - 1)
             /\ (Len(sched) - 1) * 4 * C < P * (P - 1)

\* an early return with games to play
C9_Witness ==
    /\ early
    /\ Returned("tournament2")
    /\ Len(games) >= 3

\* C10 as stated, on the lists that hold a game: total_difference(games) is 0
\* exactly when every pair of the players 1..P is on opposing sides 2 times.
C10_ZeroIffAllTwice ==
    (Returned("total_difference") /\ Len(games) >= 1
        /\ \A g \in 1..Len(games) : FourDistinct(games[g]))
    => ((diff = 0) <=> \A q \in PlayerPairs(P) : Opposed(games, q[1], q[2]) = 2)

\* C11: with tries = 0 tournament2(P, C, 0) ends as tournament(P, C) does: where
\* tournament returns a schedule, tournament2 returns the same schedule, round
\* for round and game for game, and where tournament raises so does tournament2.
C11_ZeroBudgetNoOp ==
    (fn = "tournament2" /\ pc = "done" /\ tries = 0)
    => IF GamesOf[P].isNone
       THEN outcome = "TypeError"
       ELSE /\ outcome = "return"
            /\ sched_value(sched, games)
                  = sched_value(schedule_games(GamesOf[P].list, C), GamesOf[P].list)

\* tournament2(8, 1, 0) has returned its fourteen rounds of one game
C11_Witness ==
    /\ Returned("tournament2")
    /\ tries = 0
    /\ P = MaxP
    /\ C = 1
    /\ Len(sched) = Len(games)
    /\ Len(games) >= 14

\* the partner pairs of the games of a schedule, as sets of two players
Partnerships(schedule, gs) ==
    {{gs[g][s][1], gs[g][s][2]} :
        g \in UNION {{schedule[r][k] : k \in 1..Len(schedule[r])} : r \in 1..Len(schedule)},
        s \in 1..2}

\* the number of games of a schedule that player p is in
GamesPlayed(schedule, gs, p) ==
    Cardinality({q \in (1..Len(schedule)) \X (1..Len(gs)) :
                    /\ q[2] <= Len(schedule[q[1]])
                    /\ p \in players(gs[schedule[q[1]][q[2]]])})

\* the parts of C12 that do not count partnerships: 7 rounds of 2 games, 14
\* games, every pair of the 8 players a partner pair, every player in 7 games
SevenRoundsOfTwo ==
    /\ Len(sched) = 7
    /\ \A r \in 1..Len(sched) : Len(sched[r]) = 2
    /\ Len(Flatten(sched_value(sched, games))) = 14
    /\ \A q \in PlayerPairs(8) : {q[1], q[2]} \in Partnerships(sched, games)
    /\ \A p \in 1..8 : GamesPlayed(sched, games, p) = 7

\* C12 as stated: tournament(8, 2) yields 7 rounds of 2 games, 14 games that
\* cover all 28 pairs of players as 14 partnerships, each player in 7 games.
C12_AsStated ==
    (Returned("tournament") /\ P = 8 /\ C = 2)
    => (SevenRoundsOfTwo /\ Cardinality(Partnerships(sched, games)) = 14)

\* C12 amended: tournament(8, 2) yields 7 rounds of 2 games, 14 games that
\* cover all 28 pairs of players as 28 partnerships, two in each game, and
\* every player is in exactly 7 games.
C12_EightPlayersTwoCourts ==
    (Returned("tournament") /\ P = 8 /\ C = 2)
    => /\ SevenRoundsOfTwo
       /\ Cardinality(Partnerships(sched, games)) = 28
       /\ \A q \in PlayerPairs(8) : Partnered(games, q[1], q[2]) = 1

\* tournament(8, 2) has returned
C12_Witness ==
    /\ Returned("tournament")
    /\ P = 8
    /\ C = 2
    /\ sched_value(sched, games)[1] = << <<(<<1, 2>>), (<<3, 4>>)>>, <<(<<5, 6>>), (<<7, 8>>)>> >>

\* the three conditions of C13 on the list g2 swapped at games i and j, against
\* the dispersion and the schedule recorded before the iteration
Accepted(g2, i, j) ==
    /\ total_difference(g2) <= diff
    /\ FourDistinct(g2[i]) /\ FourDistinct(g2[j])
    /\ Len(schedule_games(g2, C)) <= Len(sched)

\* tournament2 is about to draw the games and sides of a swap
AtSwap ==
    /\ fn = "tournament2"
    /\ pc = "loop"
    /\ t < tries
    /\ ~OptimalRaises /\ ~Optimal
    /\ Len(games) >= 2

\* C13: an iteration of tournament2 that draws games i, j and sides s1, s2 keeps
\* the swapped list exactly when its dispersion is <= the recorded one, games i
\* and j have four distinct players and its schedule has no more rounds than the
\* recorded one, and then records the schedule and dispersion of the swapped
\* list; otherwise the list, the recorded schedule (the games in its rounds
\* included) and the recorded dispersion are what they were.
C13_KeepOrUndo ==
    /\ [](AtSwap
            => \A i \in 1..Len(games), j \in 1..Len(games), s1 \in 1..2, s2 \in 1..2 :
                  i < j =>
                     LET g2 == swap(games, i, j, s1, s2)
                     IN  /\ iteration(j, i, s2, s1) = iteration(i, j, s1, s2)
                         /\ iteration(i, j, s1, s2) =
                               IF Accepted(g2, i, j)
                               THEN [games |-> g2, sched |-> schedule_games(g2, C),
                                     diff |-> total_difference(g2)]
                               ELSE [games |-> games, sched |-> sched, diff |-> diff])
    /\ [][(fn = "tournament2" /\ pc = "loop" /\ t' = t + 1)
            => IF games' = games
               THEN /\ sched' = sched
                    /\ sched_value(sched', games') = sched_value(sched, games)
                    /\ diff' = diff
               ELSE /\ \E i \in 1..Len(games), j \in 1..Len(games), s1 \in 1..2, s2 \in 1..2 :
                          /\ i < j
                          /\ games' = swap(games, i, j, s1, s2)
                          /\ Accepted(games', i, j)
                    /\ sched' = schedule_games(games', C)
                    /\ diff' = total_difference(games')]_vars

\* after a swap that was kept, an iteration has undone a swap
C13_Witness ==
    /\ fn = "tournament2"
    /\ pc = "loop"
    /\ t = 2
    /\ games # GamesOf[P].list
    /\ diff < total_difference(GamesOf[P].list)

\* the games of round r of sched that were placed before game g of the list
PlacedBefore(r, g) == {h \in {sched[r][m] : m \in 1..Len(sched[r])} : h < g}

\* round r could not take game g when g was placed: it held C games already
Full(r, g) == Cardinality(PlacedBefore(r, g)) >= C

\* round r could not take game g when g was placed: a player of g was in it
Conflicting(r, g) ==
    UNION {players(games[h]) : h \in PlacedBefore(r, g)} \cap players(games[g]) # {}

\* C14: in a schedule schedule_games returns, rounds are in the order they
\* were made and hold their games in list order, and every game is in the
\* earliest round that had fewer than C games and none of its players when the
\* game was placed: each earlier round was full or held a conflicting player,
\* and the game's own round, unless the game opened it, was neither.
C14_FirstFit ==
    (Returned("schedule_games") \/ Returned("tournament") \/ Returned("tournament2"))
    => \A k \in 1..Len(sched) :
          /\ k > 1 => sched[k - 1][1] < sched[k][1]
          /\ \A m \in 1..Len(sched[k]) :
                LET g == sched[k][m]
                IN  /\ m > 1 => sched[k][m - 1] < g
                    /\ \A r \in 1..(k - 1) : Full(r, g) \/ Conflicting(r, g)
                    /\ m > 1 => (~Full(k, g) /\ ~Conflicting(k, g))

\* tournament(8, 2): a game joined a later round as its second game after it
\* went past a round that had a court free but held one of its players
C14_Witness ==
    /\ Returned("tournament")
    /\ P = 8
    /\ C = 2
    /\ \E k \in 1..Len(sched) : \E r \in 1..(k - 1) :
          /\ Len(sched[k]) = 2
          /\ ~Full(r, sched[k][2])
          /\ Conflicting(r, sched[k][2])

\* the ways to group the pairs of a list into games: sets of two positions of
\* the list whose pairs share no player, no position in two of the sets
Groupings(prs) ==
    LET game == {e \in SUBSET (1..Len(prs)) :
                    /\ Cardinality(e) = 2
                    /\ \A a \in e, b \in e :
                          a # b => players_pair(prs[a]) \cap players_pair(prs[b]) = {}}
    IN  {M \in SUBSET game : \A e1 \in M, e2 \in M : e1 # e2 => e1 \cap e2 = {}}

\* some grouping consumes every pair, every pair but one when their number is odd
Packable(prs) ==
    \E M \in Groupings(prs) : Cardinality(UNION M) = Len(prs) - (Len(prs) % 2)

\* C15 as stated: on a list of distinct pairs games_from_pairs returns None only
\* if no grouping of the pairs into games of two player-disjoint pairs consumes
\* every pair (every pair but one when the number of pairs is odd).
C15_Exhaustive ==
    (Returned("games_from_pairs") /\ none) => ~Packable(pairs)

\* the partner pairs of a list of games, two for each game, as sets of players
PartnerPairs(gs) ==
    [k \in 1..(2 * Len(gs)) |->
        LET side == gs[(k + 1) \div 2][2 - (k % 2)] IN {side[1], side[2]}]

\* C16: at the start of every iteration of tournament2 and when it ends, the
\* working list has as many games as games_from_pairs(all_pairs(P)) and the
\* same multiset of partner pairs, and so have the games of the schedule.
C16_PartnersPreserved ==
    (fn = "tournament2" /\ pc \in {"loop", "done"} /\ ~none)
    => /\ Len(games) = Len(GamesOf[P].list)
       /\ BagOf(PartnerPairs(games)) = BagOf(PartnerPairs(GamesOf[P].list))
       /\ BagOf(PartnerPairs(Flatten(sched_value(sched, games))))
             = BagOf(PartnerPairs(GamesOf[P].list))

\* tournament2 returns after kept swaps that changed who plays against whom
C16_Witness ==
    /\ Returned("tournament2")
    /\ t >= 1
    /\ BagOf(games) # BagOf(GamesOf[P].list)
    /\ BagOf(Flatten(sched_value(sched, games))) = BagOf(games)

====
